---- MODULE Spec2Model ----
(***************************************************************************)
(* RF-pico: RFDevice of rpi_rf.py, a GPIO driver for 433/315 MHz on-off    *)
(* keyed remote-control modules.  The transmit path turns an integer into  *)
(* timed high/low waveforms; the receive path is an edge interrupt handler *)
(* that buffers interval durations and decodes a frame at each sync gap.   *)
(***************************************************************************)
EXTENDS Integers, Sequences, FiniteSets, TLC

(***************************************************************************)
(* Program constants (rpi_rf.py lines 10-15).                              *)
(***************************************************************************)
MAX_CHANGES == 67
THRESHOLD_SYNC == 15000
THRESHOLD_TICK == 300
SCALE_TIME_US == 3

Protocol(pl, sh, sl, zh, zl, oh, ol) ==
    [pulselength |-> pl, sync_high |-> sh, sync_low |-> sl,
     zero_high |-> zh, zero_low |-> zl, one_high |-> oh, one_low |-> ol]

\* PROTOCOLS[0] is None in the source; the table is addressed 1..6 here and
\* LenPROTOCOLS is len(PROTOCOLS), the bound used by the protocol range test.
PROTOCOLS ==
    << Protocol(350, 1, 31, 1, 3, 3, 1),
       Protocol(650, 1, 10, 1, 2, 2, 1),
       Protocol(100, 30, 71, 4, 11, 9, 6),
       Protocol(380, 1, 6, 1, 3, 3, 1),
       Protocol(500, 6, 14, 1, 2, 2, 1),
       Protocol(200, 1, 10, 1, 5, 1, 1) >>
LenPROTOCOLS == 7

\* Constructor defaults (RFDevice.__init__ signature).
DefaultLength == 24
DefaultTolerance == 70
\* The frame length tx_code forces for protocol 6.
NexaLength == 64

(***************************************************************************)
(* Bounds of the model.                                                    *)
(***************************************************************************)
MaxBitLen == 3
MaxRepeat == 2
MaxSegs == 4
MaxDevSegs == 2
MaxTolSegs == 2
MaxPollSegs == 3

\* Python's None in an integer-valued field (codes and timestamps are
\* non-negative).
None == -1

VARIABLES
    \* device configuration
    tx_proto, tx_pulselength, tx_repeat, tx_length, rx_tolerance,
    \* device runtime state
    tx_enabled, rx_enabled, pin,
    _rx_timings, _rx_last_timestamp, _rx_change_count, _rx_repeat_count,
    rx_code, rx_code_timestamp,
    \* environment: the clock, the edges in flight, the number of input bursts
    now, edges, nsegs,
    \* observation of the last call: its name, its status result, the value
    \* received_rx returned, the waveforms a send drove on the pin, the branch
    \* the edge handler took, the decoder's run, and the last send's argument
    \* with its progress through the receiver (rt)
    op, ret, polled, wave, ev, dec, rt,
    \* the constructor's tx_pulselength argument (0 for None), the codes the
    \* decoder published since the mailbox was last cleared, and the position
    \* and local variable of a received_rx call that is executed line by line
    arg_pulselength, hist, poll_pc, poll_code,
    \* the published codes that the last poll removed without returning them
    missed

config == <<tx_proto, tx_pulselength, tx_repeat, tx_length, rx_tolerance>>
roles == <<tx_enabled, rx_enabled, pin>>
rxstate == <<_rx_timings, _rx_last_timestamp, _rx_change_count, _rx_repeat_count>>
mailbox == <<rx_code, rx_code_timestamp>>
env == <<now, edges, nsegs>>
obs == <<polled, wave, ev, dec, rt>>
poll == <<poll_pc, poll_code>>
aux == <<arg_pulselength, hist, poll, missed>>
vars == <<config, roles, rxstate, mailbox, env, op, ret, obs, aux>>

Abs(x) == IF x < 0 THEN -x ELSE x
Min(a, b) == IF a < b THEN a ELSE b

NoEv == [cls |-> "none", duration |-> 0, overflow |-> FALSE, wr |-> {}]
NoDec == [invoked |-> FALSE]
NoRt == [phase |-> "idle", code |-> 0, raw |-> <<>>]

(***************************************************************************)
(* RFDevice.__init__: the state after construction for one configuration.  *)
(***************************************************************************)
Construct(proto, pulselength, repeat, length, tolerance) ==
    /\ tx_proto = proto
    /\ tx_pulselength = (IF pulselength # 0 THEN pulselength
                         ELSE PROTOCOLS[proto].pulselength)
    /\ tx_repeat = repeat
    /\ tx_length = length
    /\ rx_tolerance = tolerance
    /\ tx_enabled = FALSE
    /\ rx_enabled = FALSE
    /\ pin = "unset"
    /\ _rx_timings = [i \in 0..MAX_CHANGES |-> 0]
    /\ _rx_last_timestamp = 0
    /\ _rx_change_count = 0
    /\ _rx_repeat_count = 0
    /\ rx_code = None
    /\ rx_code_timestamp = None
    /\ now = 0
    /\ edges = <<>>
    /\ nsegs = 0
    /\ op = "init"
    /\ ret = "None"
    /\ polled = None
    /\ wave = <<>>
    /\ ev = NoEv
    /\ dec = NoDec
    /\ rt = NoRt
    /\ arg_pulselength = pulselength
    /\ hist = <<>>
    /\ missed = <<>>
    /\ poll_pc = "idle"
    /\ poll_code = None

(***************************************************************************)
(* Role management.                                                        *)
(***************************************************************************)
\* enable_tx without the test of rx_enabled.
enable_tx_nocheck ==
    /\ op' = "enable_tx"
    /\ ret' = "True"
    /\ IF ~tx_enabled
       THEN /\ tx_enabled' = TRUE
            /\ pin' = "OUT"
            /\ UNCHANGED rx_enabled
       ELSE UNCHANGED roles
    /\ UNCHANGED <<config, rxstate, mailbox, env, obs, aux>>

enable_tx ==
    /\ op' = "enable_tx"
    /\ IF rx_enabled
       THEN /\ ret' = "False"
            /\ UNCHANGED roles
       ELSE /\ ret' = "True"
            /\ IF ~tx_enabled
               THEN /\ tx_enabled' = TRUE
                    /\ pin' = "OUT"
                    /\ UNCHANGED rx_enabled
               ELSE UNCHANGED roles
    /\ UNCHANGED <<config, rxstate, mailbox, env, obs, aux>>

disable_tx ==
    /\ op' = "disable_tx"
    /\ ret' = "True"
    /\ IF tx_enabled
       THEN /\ pin' = "IN"
            /\ tx_enabled' = FALSE
            /\ UNCHANGED rx_enabled
       ELSE UNCHANGED roles
    /\ UNCHANGED <<config, rxstate, mailbox, env, obs, aux>>

\* enable_rx that clears the receive counters before it tests tx_enabled.
enable_rx_reset ==
    /\ op' = "enable_rx"
    /\ _rx_change_count' = 0
    /\ _rx_repeat_count' = 0
    /\ IF tx_enabled
       THEN /\ ret' = "False"
            /\ UNCHANGED roles
       ELSE /\ ret' = "True"
            /\ IF ~rx_enabled
               THEN /\ rx_enabled' = TRUE
                    /\ pin' = "IN"
                    /\ UNCHANGED tx_enabled
               ELSE UNCHANGED roles
    /\ UNCHANGED <<config, _rx_timings, _rx_last_timestamp, mailbox, env, obs, aux>>

enable_rx ==
    /\ op' = "enable_rx"
    /\ IF tx_enabled
       THEN /\ ret' = "False"
            /\ UNCHANGED roles
       ELSE /\ ret' = "True"
            /\ IF ~rx_enabled
               THEN /\ rx_enabled' = TRUE
                    /\ pin' = "IN"
                    /\ UNCHANGED tx_enabled
               ELSE UNCHANGED roles
    /\ UNCHANGED <<config, rxstate, mailbox, env, obs, aux>>

disable_rx ==
    /\ op' = "disable_rx"
    /\ ret' = "True"
    /\ IF rx_enabled
       THEN /\ rx_enabled' = FALSE
            /\ UNCHANGED <<tx_enabled, pin>>
       ELSE UNCHANGED roles
    /\ UNCHANGED <<config, rxstate, mailbox, env, obs, aux>>

\* cleanup calls disable_tx and disable_rx under their own guards and then
\* reconfigures the pin as a pulled-down input.
cleanup ==
    /\ op' = "cleanup"
    /\ ret' = "None"
    /\ tx_enabled' = FALSE
    /\ rx_enabled' = FALSE
    /\ pin' = "IN"
    /\ UNCHANGED <<config, rxstate, mailbox, env, obs, aux>>

(***************************************************************************)
(* Transmit path.  A waveform is what tx_waveform drives on the pin: high  *)
(* for `high` microseconds, then low for `low` microseconds; `kind` names  *)
(* the caller (tx_sync, tx_l0, tx_l1).  Each operator takes the waveforms  *)
(* driven so far and returns them extended, with the call's result.        *)
(***************************************************************************)
\* tx_waveform without the test of tx_enabled.
tx_waveform_nocheck(w, kind, highpulses, lowpulses) ==
    [ok |-> TRUE,
     wave |-> Append(w, [kind |-> kind,
                         high |-> highpulses * tx_pulselength * SCALE_TIME_US,
                         low |-> lowpulses * tx_pulselength * SCALE_TIME_US])]

tx_waveform(w, kind, highpulses, lowpulses) ==
    IF ~tx_enabled
    THEN [ok |-> FALSE, wave |-> w]
    ELSE [ok |-> TRUE,
          wave |-> Append(w, [kind |-> kind,
                              high |-> highpulses * tx_pulselength * SCALE_TIME_US,
                              low |-> lowpulses * tx_pulselength * SCALE_TIME_US])]

ValidProto == 0 < tx_proto /\ tx_proto < LenPROTOCOLS

tx_l0(w) ==
    IF ~ValidProto
    THEN [ok |-> FALSE, wave |-> w]
    ELSE tx_waveform(w, "0", PROTOCOLS[tx_proto].zero_high, PROTOCOLS[tx_proto].zero_low)

\* tx_l1 with the high and low multipliers exchanged.
tx_l1_swapped(w) ==
    IF ~ValidProto
    THEN [ok |-> FALSE, wave |-> w]
    ELSE tx_waveform(w, "1", PROTOCOLS[tx_proto].one_low, PROTOCOLS[tx_proto].one_high)

tx_l1(w) ==
    IF ~ValidProto
    THEN [ok |-> FALSE, wave |-> w]
    ELSE tx_waveform(w, "1", PROTOCOLS[tx_proto].one_high, PROTOCOLS[tx_proto].one_low)

\* tx_sync with the high and low multipliers exchanged.
tx_sync_swapped(w) ==
    IF ~ValidProto
    THEN [ok |-> FALSE, wave |-> w]
    ELSE tx_waveform(w, "sync", PROTOCOLS[tx_proto].sync_low, PROTOCOLS[tx_proto].sync_high)

tx_sync(w) ==
    IF ~ValidProto
    THEN [ok |-> FALSE, wave |-> w]
    ELSE tx_waveform(w, "sync", PROTOCOLS[tx_proto].sync_high, PROTOCOLS[tx_proto].sync_low)

\* The inner loop of tx_bin: for byte in range(0, length), one tx_l0 or
\* tx_l1 per character.  The loop stops at the first call that returns
\* False; rawcode[byte] raises IndexError past the end of the pattern.
tx_bit(b) == IF b = 0 THEN tx_l0(<<>>) ELSE tx_l1(<<>>)

tx_bits(rawcode, length, w) ==
    LET m == Min(length, Len(rawcode))
        bad == {i \in 1..m : ~tx_bit(rawcode[i]).ok}
        n == IF bad = {} THEN m
             ELSE (CHOOSE i \in bad : \A j \in bad : i <= j) - 1
    IN  [ret |-> IF bad # {} THEN "False"
                 ELSE IF Len(rawcode) < length THEN "IndexError"
                 ELSE "True",
         wave |-> w \o [i \in 1..n |-> tx_bit(rawcode[i]).wave[1]]]

\* A leading sync in front of every protocol's frame.
NeedsPreSync_always == TRUE

\* tx_bin sends a sync before the bits for protocol 6 only.
NeedsPreSync == tx_proto = 6

\* The outer loop of tx_bin: for _ in range(0, tx_repeat).
RECURSIVE tx_frames(_, _, _, _)
tx_frames(rawcode, length, rep, w) ==
    IF rep >= tx_repeat THEN [ret |-> "True", wave |-> w]
    ELSE LET pre == IF NeedsPreSync THEN tx_sync(w) ELSE [ok |-> TRUE, wave |-> w]
         IN  IF ~pre.ok THEN [ret |-> "False", wave |-> pre.wave]
             ELSE LET b == tx_bits(rawcode, length, pre.wave)
                  IN  IF b.ret # "True" THEN b
                      ELSE LET post == tx_sync(b.wave)
                           IN  IF ~post.ok THEN [ret |-> "False", wave |-> post.wave]
                               ELSE tx_frames(rawcode, length, rep + 1, post.wave)

\* bin(code)[2:] as a sequence of bits, most significant first; bin(0) is "0".
RECURSIVE Bin(_)
Bin(code) == IF code < 2 THEN <<code>> ELSE Append(Bin(code \div 2), code % 2)

Zeros(n) == [i \in 1..n |-> 0]

\* The padding appended instead of prepended.
RawCode_padright(code) ==
    LET b == Bin(code)
    IN  b \o Zeros(IF tx_length - Len(b) > 0 THEN tx_length - Len(b) ELSE 0)

\* '0'*(tx_length - len(bin(code)[2:])) + bin(code)[2:]; a negative count
\* gives the empty string.
RawCode(code) ==
    LET b == Bin(code)
    IN  Zeros(IF tx_length - Len(b) > 0 THEN tx_length - Len(b) ELSE 0) \o b

\* The protocol 6 substitution of tx_code: 0 becomes 01, 1 becomes 10.
NexaCode(rawcode) ==
    [i \in 1..(2 * Len(rawcode)) |->
        LET b == rawcode[(i + 1) \div 2]
        IN  IF i % 2 = 1 THEN b ELSE 1 - b]

\* After a protocol 6 tx_code the device's tx_length is 64.
TxCodeLength == IF tx_proto = 6 THEN NexaLength ELSE tx_length

tx_bin(rawcode) ==
    LET r == tx_frames(rawcode, tx_length, 0, <<>>)
    IN  /\ op' = "tx_bin"
        /\ ret' = r.ret
        /\ wave' = r.wave
        /\ rt' = [phase |-> "bin", code |-> 0, raw |-> rawcode]
        /\ UNCHANGED <<config, roles, rxstate, mailbox, env, polled, ev, dec, aux>>

tx_code(code) ==
    LET raw == IF tx_proto = 6 THEN NexaCode(RawCode(code)) ELSE RawCode(code)
        r == tx_frames(raw, TxCodeLength, 0, <<>>)
    IN  /\ op' = "tx_code"
        /\ tx_length' = TxCodeLength
        /\ ret' = r.ret
        /\ wave' = r.wave
        /\ rt' = [phase |-> IF r.ret = "True" THEN "sent" ELSE "failed",
                  code |-> code, raw |-> raw]
        /\ UNCHANGED <<tx_proto, tx_pulselength, tx_repeat, rx_tolerance>>
        /\ UNCHANGED <<roles, rxstate, mailbox, env, polled, ev, dec, aux>>

(***************************************************************************)
(* Receive path.                                                           *)
(***************************************************************************)
rx_proto == tx_proto

\* self._rx_timings[i] with Python's indexing: a negative index counts from
\* the end of the list; an index outside the list raises IndexError, which
\* reads nothing.
Timing(i) ==
    IF i \in 0..MAX_CHANGES THEN _rx_timings[i]
    ELSE IF i + MAX_CHANGES + 1 \in 0..MAX_CHANGES THEN _rx_timings[i + MAX_CHANGES + 1]
    ELSE 0

\* The comparison with <= in place of <.
Near_le(x, delay, mult) == 100 * Abs(x - delay * mult) <= delay * rx_tolerance

\* abs(x - delay * mult) < delay_tolerance, with
\* delay_tolerance = delay * rx_tolerance / 100 (a float), in integers.
Near(x, delay, mult) == 100 * Abs(x - delay * mult) < delay * rx_tolerance

\* The loop of _rx_waveform over the pairs (i, i+1), i = 1, 3, ... below
\* change_count.  `and` evaluates its second operand, which reads slot i+1,
\* only when the first holds.  rd collects the slots read.
RECURSIVE rx_pairs(_, _, _, _, _, _)
rx_pairs(pnum, delay, change_count, i, code, rd) ==
    IF i >= change_count THEN [matched |-> TRUE, code |-> code, rd |-> rd]
    ELSE LET zh == Near(Timing(i), delay, PROTOCOLS[pnum].zero_high)
             zl == Near(Timing(i + 1), delay, PROTOCOLS[pnum].zero_low)
             oh == Near(Timing(i), delay, PROTOCOLS[pnum].one_high)
             ol == Near(Timing(i + 1), delay, PROTOCOLS[pnum].one_low)
             rd1 == rd \cup {i} \cup (IF zh \/ oh THEN {i + 1} ELSE {})
         IN  IF zh /\ zl THEN rx_pairs(pnum, delay, change_count, i + 2, 2 * code, rd1)
             ELSE IF oh /\ ol
                  THEN rx_pairs(pnum, delay, change_count, i + 2, 2 * code + 1, rd1)
                  ELSE [matched |-> FALSE, code |-> code, rd |-> rd1]

\* A test that lets the all-zero code through.
Acceptable_zero(change_count, code) == change_count > 6

\* The test guarding the publication: more than six intervals and a code
\* other than 0.
Acceptable(change_count, code) == change_count > 6 /\ code # 0

\* A decoder that leaves the loop at a pair matching neither template and
\* goes on to publish the bits shifted in so far.
_rx_waveform_partial(pnum, change_count, timestamp) ==
    LET delay == _rx_timings[0] \div PROTOCOLS[pnum].sync_low
        r == rx_pairs(pnum, delay, change_count, 1, 0, {0})
    IN  [invoked |-> TRUE, buf |-> _rx_timings, n |-> change_count,
         delay |-> delay, matched |-> r.matched, code |-> r.code, rd |-> r.rd,
         accepted |-> Acceptable(change_count, r.code),
         timestamp |-> timestamp]

\* _rx_waveform: the run of the decoder on the buffer as it stands, where
\* change_count is also the value self._rx_change_count has during the call.
\* accepted tells whether the mailbox is written.
_rx_waveform(pnum, change_count, timestamp) ==
    LET delay == _rx_timings[0] \div PROTOCOLS[pnum].sync_low
        r == rx_pairs(pnum, delay, change_count, 1, 0, {0})
    IN  [invoked |-> TRUE, buf |-> _rx_timings, n |-> change_count,
         delay |-> delay, matched |-> r.matched, code |-> r.code, rd |-> r.rd,
         accepted |-> r.matched /\ Acceptable(change_count, r.code),
         timestamp |-> timestamp]

\* The three tests of rx_callback on the interval and the counter.
IsTick(duration) == duration > THRESHOLD_TICK

\* A handler that takes no interval for a sync.
IsSync_never(duration) == FALSE

IsSync(duration) == duration > THRESHOLD_SYNC

\* The overflow test firing two intervals late.
Overflow_late(change_count) == change_count > MAX_CHANGES + 1

Overflow(change_count) == change_count >= MAX_CHANGES

\* A publication that keeps a code the consumer has not collected yet.
rx_store_ifempty(code, timestamp) ==
    IF rx_code = None
    THEN /\ rx_code' = code
         /\ rx_code_timestamp' = timestamp
    ELSE UNCHANGED mailbox

\* _rx_waveform's publication of an accepted code: the mailbox is one slot,
\* written whatever it held.
rx_store(code, timestamp) ==
    /\ rx_code' = code
    /\ rx_code_timestamp' = timestamp

\* rx_callback at clock value timestamp.  ev records the branch taken and
\* the slot written; dec records the decoder's run, if any.
rx_callback(timestamp) ==
    LET duration == timestamp - _rx_last_timestamp
        tick == IsTick(duration)
        sync == tick /\ IsSync(duration)
        rep1 == IF sync THEN _rx_repeat_count + 1 ELSE _rx_repeat_count
        cc1 == IF sync THEN _rx_change_count - 1 ELSE _rx_change_count
        invoke == sync /\ cc1 > 1
        d == _rx_waveform(rx_proto, cc1, timestamp)
        cc2 == IF sync THEN 0 ELSE cc1
        overflow == tick /\ Overflow(cc2)
        cc3 == IF overflow THEN 0 ELSE cc2
        rep3 == IF overflow THEN 0 ELSE rep1
    IN  /\ op' = "rx_callback"
        /\ ret' = "None"
        /\ now' = timestamp
        /\ _rx_last_timestamp' = timestamp
        /\ IF tick
           THEN /\ _rx_timings' = (IF cc3 \in DOMAIN _rx_timings
                                   THEN [_rx_timings EXCEPT ![cc3] = duration]
                                   ELSE _rx_timings)
                /\ _rx_change_count' = cc3 + 1
                /\ _rx_repeat_count' = rep3
           ELSE UNCHANGED <<_rx_timings, _rx_change_count, _rx_repeat_count>>
        /\ IF invoke /\ d.accepted
           THEN rx_store(d.code, timestamp)
           ELSE UNCHANGED mailbox
        /\ ev' = [cls |-> IF sync THEN "sync" ELSE IF tick THEN "data" ELSE "noise",
                  duration |-> duration,
                  overflow |-> overflow,
                  wr |-> IF tick THEN {cc3} ELSE {}]
        /\ dec' = (IF invoke THEN d ELSE NoDec)
        /\ hist' = (IF invoke /\ d.accepted THEN Append(hist, d.code) ELSE hist)
        /\ UNCHANGED <<config, roles, polled, wave, arg_pulselength, poll, missed>>

\* A poll that returns the code and leaves it in the mailbox.
received_rx_keep ==
    /\ op' = "received_rx"
    /\ ret' = "None"
    /\ polled' = rx_code
    /\ UNCHANGED <<config, roles, rxstate, mailbox, env, wave, ev, dec, aux>>

\* received_rx: read the mailbox and clear it when it holds a truthy code.
received_rx ==
    /\ op' = "received_rx"
    /\ ret' = "None"
    /\ polled' = rx_code
    /\ rx_code' = (IF rx_code # None /\ rx_code # 0 THEN None ELSE rx_code)
    /\ hist' = (IF rx_code # None /\ rx_code # 0 THEN <<>> ELSE hist)
    /\ missed' = (IF rx_code # None /\ rx_code # 0
                  THEN SubSeq(hist, 1, Len(hist) - 1) ELSE <<>>)
    /\ UNCHANGED <<config, roles, rxstate, rx_code_timestamp, env, wave, ev, dec>>
    /\ UNCHANGED <<arg_pulselength, poll>>

(***************************************************************************)
(* Environment of the receiver: the pin's transitions.  An input is one    *)
(* edge, or a burst of edges in flight that the interrupt delivers one by  *)
(* one.  Edges reach the handler only while receive is enabled (the        *)
(* handler is registered by enable_rx and removed by disable_rx).          *)
(***************************************************************************)
Unit == PROTOCOLS[tx_proto].pulselength * SCALE_TIME_US

\* One edge after a noise-length, data-length or sync-length interval.
EdgeDurs ==
    {THRESHOLD_TICK,
     PROTOCOLS[tx_proto].zero_high * Unit,
     PROTOCOLS[tx_proto].one_high * Unit,
     PROTOCOLS[tx_proto].sync_low * Unit}

\* The intervals of a bit string sent with the device's protocol, followed
\* by the closing sync waveform.
BitDurs(bits) ==
    [k \in 1..(2 * Len(bits)) |->
        LET b == bits[(k + 1) \div 2]
            P == PROTOCOLS[tx_proto]
        IN  IF k % 2 = 1
            THEN (IF b = 0 THEN P.zero_high ELSE P.one_high) * Unit
            ELSE (IF b = 0 THEN P.zero_low ELSE P.one_low) * Unit]

FrameDurs(bits) ==
    BitDurs(bits) \o <<PROTOCOLS[tx_proto].sync_high * Unit,
                       PROTOCOLS[tx_proto].sync_low * Unit>>

FrameBits == {<<0, 0, 0>>, <<1, 0, 1>>, <<1, 1, 0>>}

\* A train of zero bits with no sync: MAX_CHANGES - 1 data intervals.
BurstDurs == BitDurs(Zeros((MAX_CHANGES - 1) \div 2))

RxEdge ==
    /\ rx_enabled
    /\ edges = <<>>
    /\ nsegs < MaxSegs
    /\ \E d \in EdgeDurs : rx_callback(now + d)
    /\ nsegs' = nsegs + 1
    /\ UNCHANGED <<edges, rt>>

RxNext ==
    /\ rx_enabled
    /\ edges # <<>>
    /\ rx_callback(now + Head(edges))
    /\ edges' = Tail(edges)
    /\ UNCHANGED <<nsegs, rt>>

EnvSeg(durs) ==
    /\ rx_enabled
    /\ edges = <<>>
    /\ nsegs < MaxSegs
    /\ edges' = durs
    /\ nsegs' = nsegs + 1
    /\ op' = "env"
    /\ UNCHANGED <<config, roles, rxstate, mailbox, now, ret, obs, aux>>

EnvFrame == \E bits \in FrameBits : EnvSeg(FrameDurs(bits))

EnvBurst == EnvSeg(BurstDurs)

RECURSIVE Sum(_)
Sum(q) == IF q = <<>> THEN 0 ELSE Head(q) + Sum(Tail(q))

\* Transitions of the pin while no handler is registered are not observed:
\* the rest of the burst passes and only the clock moves.
EnvDrop ==
    /\ ~rx_enabled
    /\ edges # <<>>
    /\ now' = now + Sum(edges)
    /\ edges' = <<>>
    /\ op' = "env"
    /\ UNCHANGED <<config, roles, rxstate, mailbox, nsegs, ret, obs, aux>>

Poll ==
    /\ received_rx
    /\ rt' = rt

(***************************************************************************)
(* The receive specification: a receiver fed arbitrary edges.              *)
(***************************************************************************)
RxProtos == {1}

InitRx ==
    \E p \in RxProtos : Construct(p, 0, 1, DefaultLength, DefaultTolerance)

NextRx ==
    \/ enable_rx
    \/ RxEdge
    \/ RxNext
    \/ EnvFrame
    \/ EnvBurst

SpecRx == InitRx /\ [][NextRx]_vars

(***************************************************************************)
(* The device specification: one RFDevice whose roles are switched at will *)
(* while its pin sees edges and its consumer polls.                        *)
(***************************************************************************)
Init == InitRx

Next ==
    \/ enable_tx
    \/ disable_tx
    \/ enable_rx
    \/ disable_rx
    \/ cleanup
    \/ (nsegs < MaxDevSegs /\ RxEdge)
    \/ RxNext
    \/ (nsegs < MaxDevSegs /\ EnvFrame)
    \/ EnvDrop

Spec == Init /\ [][Next]_vars

(***************************************************************************)
(* Inputs of the transmit specification.                                   *)
(***************************************************************************)
Protos == 1..6
BitLengths == (1..MaxBitLen) \cup {DefaultLength, 32}
Repeats == 1..MaxRepeat
Pulselengths == {0, 100}
\* Codes and patterns offered to a device with a short frame length: every
\* code of tx_length bits and the first one beyond, every pattern of
\* tx_length and of tx_length - 1 characters, and the empty pattern; a few
\* of each for the long frame lengths.
TxCodes == IF tx_length <= MaxBitLen THEN 0..(2 ^ tx_length) ELSE {0, 255}
Patterns ==
    IF tx_length <= MaxBitLen
    THEN UNION {[1..n -> {0, 1}] : n \in {0, tx_length - 1, tx_length}}
    ELSE {<<>>, RawCode(255), NexaCode(RawCode(255))}

InitTx ==
    \E p \in Protos, pl \in Pulselengths, r \in Repeats, l \in BitLengths :
        Construct(p, pl, r, l, DefaultTolerance)

NextTx ==
    \/ enable_tx
    \/ disable_tx
    \/ \E code \in TxCodes : tx_code(code)
    \/ \E rawcode \in Patterns : tx_bin(rawcode)

SpecTx == InitTx /\ [][NextTx]_vars

(***************************************************************************)
(* The round-trip specification: one tx_code, whose waveforms are then     *)
(* played as edges into the receiver, and one received_rx at the end.      *)
(***************************************************************************)
\* The intervals between the pin transitions of a sequence of waveforms:
\* the pin rises at the start of each waveform and falls after its high
\* time; nothing follows the last low time.
WaveDurs(w) ==
    [k \in 1..(2 * Len(w) - 1) |->
        IF k % 2 = 1 THEN w[(k + 1) \div 2].high ELSE w[k \div 2].low]

\* The clock value of the first edge: noise-, data- and sync-length.
FirstEdges == {THRESHOLD_TICK, 5000, 20000}

RTBitLengths == (1..MaxBitLen) \cup {32, 33}
RTRepeats == 2..(MaxRepeat + 1)
RTCodes == IF tx_length <= MaxBitLen THEN 0..(2 ^ tx_length - 1) ELSE {1, 255}

EnvReplay ==
    /\ rx_enabled
    /\ rt.phase = "sent"
    /\ edges = <<>>
    /\ \E t0 \in FirstEdges : edges' = <<t0>> \o WaveDurs(wave)
    /\ rt' = [rt EXCEPT !.phase = "fed"]
    /\ op' = "env"
    /\ UNCHANGED <<config, roles, rxstate, mailbox, now, nsegs, ret, polled, wave, ev, dec, aux>>

PollRT ==
    /\ rt.phase = "fed"
    /\ edges = <<>>
    /\ received_rx
    /\ rt' = [rt EXCEPT !.phase = "polled"]

InitRT ==
    \E p \in Protos, r \in RTRepeats, l \in RTBitLengths :
        Construct(p, 0, r, l, DefaultTolerance)

NextRT ==
    \/ enable_tx
    \/ disable_tx
    \/ enable_rx
    \/ (rt.phase = "idle" /\ \E code \in RTCodes : tx_code(code))
    \/ EnvReplay
    \/ RxNext
    \/ PollRT

SpecRT == InitRT /\ [][NextRT]_vars

(***************************************************************************)
(* The tolerance specification: a receiver fed sync gaps and frames in     *)
(* which one interval of the first pair is off its nominal length.         *)
(***************************************************************************)
Tolerances == {0, DefaultTolerance}

\* delay_tolerance for the nominal unit, and the deviations tried around it.
TolUnit == (Unit * rx_tolerance) \div 100
Jitters == {TolUnit - 1, TolUnit, TolUnit + 1, -TolUnit}

Jitter(durs, k, j) == [durs EXCEPT ![k] = durs[k] + j]

EnvSync ==
    /\ nsegs < MaxTolSegs
    /\ EnvSeg(<<PROTOCOLS[tx_proto].sync_low * Unit>>)

EnvJitterFrame ==
    /\ nsegs < MaxTolSegs
    /\ \E bits \in FrameBits, k \in 1..2, j \in Jitters :
           EnvSeg(Jitter(FrameDurs(bits), k, j))

InitTol ==
    \E p \in RxProtos, t \in Tolerances : Construct(p, 0, 1, DefaultLength, t)

NextTol ==
    \/ enable_rx
    \/ EnvSync
    \/ EnvJitterFrame
    \/ RxNext

SpecTol == InitTol /\ [][NextTol]_vars

(***************************************************************************)
(* The polling specification: a receiver fed sync gaps, well-formed frames *)
(* and frames whose last data interval is off by the whole tolerance,      *)
(* with a consumer that polls between any two edges.                       *)
(***************************************************************************)
EnvPollSync ==
    /\ nsegs < MaxPollSegs
    /\ EnvSeg(<<PROTOCOLS[tx_proto].sync_low * Unit>>)

EnvPollFrame ==
    /\ nsegs < MaxPollSegs
    /\ EnvFrame

EnvBadFrame ==
    /\ nsegs < MaxPollSegs
    /\ \E bits \in FrameBits :
           EnvSeg(Jitter(FrameDurs(bits), 2 * Len(bits), TolUnit))

InitPoll ==
    \E p \in RxProtos : Construct(p, 0, 1, DefaultLength, DefaultTolerance)

NextPoll ==
    \/ enable_rx
    \/ EnvPollSync
    \/ EnvPollFrame
    \/ EnvBadFrame
    \/ RxNext
    \/ Poll

SpecPoll == InitPoll /\ [][NextPoll]_vars

(***************************************************************************)
(* The interrupt specification: received_rx executed line by line by the   *)
(* consumer, the edge handler running between any two of its lines.        *)
(* poll_code is the call's local variable `code`.                          *)
(***************************************************************************)
\* code = self.rx_code
received_rx_read ==
    /\ poll_pc = "idle"
    /\ poll_code' = rx_code
    /\ poll_pc' = "test"
    /\ op' = "received_rx:read"
    /\ UNCHANGED <<config, roles, rxstate, mailbox, env, ret, obs>>
    /\ UNCHANGED <<arg_pulselength, hist, missed>>

\* if self.rx_code:
received_rx_test ==
    /\ poll_pc = "test"
    /\ poll_pc' = (IF rx_code # None /\ rx_code # 0 THEN "clear" ELSE "return")
    /\ op' = "received_rx:test"
    /\ UNCHANGED <<config, roles, rxstate, mailbox, env, ret, obs>>
    /\ UNCHANGED <<arg_pulselength, hist, missed, poll_code>>

NotReturned(c) == c # poll_code

\* self.rx_code = None
received_rx_clear ==
    /\ poll_pc = "clear"
    /\ rx_code' = None
    /\ poll_pc' = "return"
    /\ op' = "received_rx:clear"
    /\ hist' = <<>>
    /\ missed' = SelectSeq(hist, NotReturned)
    /\ UNCHANGED <<config, roles, rxstate, rx_code_timestamp, env, ret, obs>>
    /\ UNCHANGED <<arg_pulselength, poll_code>>

\* return code
received_rx_return ==
    /\ poll_pc = "return"
    /\ polled' = poll_code
    /\ poll_pc' = "idle"
    /\ op' = "received_rx"
    /\ ret' = "None"
    /\ UNCHANGED <<config, roles, rxstate, mailbox, env, wave, ev, dec, rt>>
    /\ UNCHANGED <<arg_pulselength, hist, missed, poll_code>>

NextIrq ==
    \/ enable_rx
    \/ EnvPollSync
    \/ EnvPollFrame
    \/ RxNext
    \/ received_rx_read
    \/ received_rx_test
    \/ received_rx_clear
    \/ received_rx_return

SpecIrq == InitPoll /\ [][NextIrq]_vars

(***************************************************************************)
(* Properties.                                                             *)
(***************************************************************************)

\* C1: in every state reached by enable_tx, enable_rx, disable_tx,
\* disable_rx and cleanup calls, tx_enabled and rx_enabled are not both true.
C1_RolesExclusive == ~(tx_enabled /\ rx_enabled)

\* A second enable_* call has just been rejected while the other role is on.
C1_Witness == op = "enable_rx" /\ ret = "False" /\ tx_enabled /\ ~rx_enabled

\* C2: enable_tx while rx_enabled, and enable_rx while tx_enabled, return
\* False and leave the configuration, the roles and the pin, the receive
\* buffer and counters and the mailbox unchanged.
C2_RejectedEnableNoEffect ==
    [][ ((op' = "enable_tx" /\ rx_enabled) \/ (op' = "enable_rx" /\ tx_enabled))
        => (ret' = "False" /\ UNCHANGED <<config, roles, rxstate, mailbox>>) ]_vars

\* enable_tx has just been rejected on a receiver with intervals in its
\* buffer and a code in its mailbox.
C2_Witness ==
    /\ op = "enable_tx" /\ ret = "False" /\ rx_enabled
    /\ _rx_change_count > 0 /\ rx_code # None

BitOf(code, length, i) ==
    IF length - i > 30 THEN 0 ELSE (code \div (2 ^ (length - i))) % 2

InRange(code, length) == length > 30 \/ code < 2 ^ length

KindOf(b) == IF b = 0 THEN "0" ELSE "1"

\* C4: for protocols 1 to 5 and 0 <= code < 2^tx_length, a tx_code on an
\* enabled transmitter drives, in each of the tx_repeat repetitions, exactly
\* tx_length bit waveforms, the bits of code most significant first and
\* zero-padded on the left, followed by the sync.
C4_FixedWidthMsbFirst ==
    (op = "tx_code" /\ tx_enabled /\ tx_proto \in 1..5 /\ InRange(rt.code, tx_length))
    => /\ ret = "True"
       /\ Len(wave) = tx_repeat * (tx_length + 1)
       /\ \A r \in 0..(tx_repeat - 1) :
            /\ \A i \in 1..tx_length :
                 wave[r * (tx_length + 1) + i].kind = KindOf(BitOf(rt.code, tx_length, i))
            /\ wave[(r + 1) * (tx_length + 1)].kind = "sync"

\* Protocol 1, tx_length 24, code 255 has been sent: sixteen 0 waveforms and
\* eight 1 waveforms.
C4_Witness ==
    /\ op = "tx_code" /\ tx_enabled /\ ret = "True"
    /\ tx_proto = 1 /\ tx_length = DefaultLength /\ rt.code = 255
    /\ \A i \in 1..16 : wave[i].kind = "0"
    /\ \A i \in 17..24 : wave[i].kind = "1"

\* C5: with protocol 6, a tx_code on an enabled transmitter returns True and
\* drives, per repetition, a sync, 64 bit waveforms and a sync, the bit
\* waveforms being the pattern with 0 replaced by 01 and 1 by 10, for every
\* configured tx_length.
C5_Nexa64Bits ==
    (op = "tx_code" /\ tx_enabled /\ tx_proto = 6)
    => /\ ret = "True"
       /\ Len(wave) = tx_repeat * (NexaLength + 2)
       /\ \A r \in 0..(tx_repeat - 1) :
            Cardinality({i \in 1..(NexaLength + 2) :
                            wave[r * (NexaLength + 2) + i].kind # "sync"}) = NexaLength

\* C6: a send leaves the device configuration, tx_length included, as it
\* was before the call.
C6_SendKeepsConfig ==
    [][ op' \in {"tx_code", "tx_bin"} => UNCHANGED config ]_vars

\* C7 as stated: for protocols 1 to 5, every tx_length >= 1, every code
\* below 2^tx_length and tx_repeat >= 2, the received_rx that follows the
\* edges of tx_code's waveforms returns the code sent.
C7_RoundTripAll ==
    (rt.phase = "polled" /\ tx_proto \in 1..5 /\ InRange(rt.code, tx_length))
    => polled = rt.code

\* C7 (amended): for protocols 1, 2, 3 and 5 with their own pulse length,
\* tx_length from 3 to 32, 1 <= code < 2^tx_length and tx_repeat >= 3, the
\* received_rx that follows the edges of tx_code's waveforms, fed to a
\* receiver of the same protocol with tolerance 70, returns the code sent.
C7_RoundTrip ==
    (/\ rt.phase = "polled"
     /\ tx_proto \in {1, 2, 3, 5}
     /\ tx_length \in 3..32
     /\ rt.code >= 1 /\ InRange(rt.code, tx_length)
     /\ tx_repeat >= 3)
    => polled = rt.code

\* A code of a 3-bit frame has made the round trip.
C7_Witness ==
    /\ rt.phase = "polled" /\ op = "received_rx"
    /\ tx_proto = 3 /\ tx_length = 3 /\ tx_repeat = 3
    /\ rt.code = 5 /\ polled = 5

\* The deviation of buffered interval i from delay * mult and the tolerance
\* of the decoder's last run, both scaled by 100.
Dev100(i, mult) == 100 * Abs(dec.buf[i] - dec.delay * mult)
Tol100 == dec.delay * rx_tolerance

PairStarts == {i \in 1..(dec.n - 1) : i % 2 = 1}

\* C8 as stated: a pair whose two intervals deviate from the zero template,
\* or from the one template, by at most delay_tolerance matches, so the
\* decoder does not abort on it.
C8_BoundaryInclusive ==
    (dec.invoked /\ \A i \in PairStarts :
        \/ /\ Dev100(i, PROTOCOLS[rx_proto].zero_high) <= Tol100
           /\ Dev100(i + 1, PROTOCOLS[rx_proto].zero_low) <= Tol100
        \/ /\ Dev100(i, PROTOCOLS[rx_proto].one_high) <= Tol100
           /\ Dev100(i + 1, PROTOCOLS[rx_proto].one_low) <= Tol100)
    => dec.matched

\* C8 (amended): an interval matches a template exactly when its deviation
\* from delay * multiplier is strictly less than delay_tolerance; a
\* deviation equal to delay_tolerance, or one unit more, does not match.
\* So the decoder runs to the end exactly when every pair is strictly
\* within tolerance of the zero or of the one template.
C8_BoundaryExclusive ==
    dec.invoked =>
        (dec.matched <=>
            \A i \in PairStarts :
                \/ /\ Dev100(i, PROTOCOLS[rx_proto].zero_high) < Tol100
                   /\ Dev100(i + 1, PROTOCOLS[rx_proto].zero_low) < Tol100
                \/ /\ Dev100(i, PROTOCOLS[rx_proto].one_high) < Tol100
                   /\ Dev100(i + 1, PROTOCOLS[rx_proto].one_low) < Tol100)

\* The decoder has aborted on a first pair whose high interval is off the
\* zero template by exactly delay_tolerance (735 for a delay of 1050), the
\* low interval being exact.
C8_Witness ==
    /\ dec.invoked /\ ~dec.matched /\ rx_tolerance = DefaultTolerance
    /\ dec.delay = Unit
    /\ Dev100(1, PROTOCOLS[rx_proto].zero_high) = Tol100
    /\ Dev100(2, PROTOCOLS[rx_proto].zero_low) = 0
    /\ dec.rd = {0, 1}

\* C9: an edge at most THRESHOLD_TICK after _rx_last_timestamp leaves
\* _rx_change_count, _rx_repeat_count, the buffer and _rx_last_timestamp
\* unchanged.
C9_NoiseIgnored ==
    [][ (op' = "rx_callback" /\ ev'.cls = "noise") => UNCHANGED rxstate ]_vars

\* C10: every slot the edge handler writes and every slot the decoder reads
\* (i and i+1 of each pair) is one of the MAX_CHANGES + 1 slots 0..MAX_CHANGES.
C10_IndicesInBuffer ==
    /\ ev.wr \subseteq 0..MAX_CHANGES
    /\ _rx_change_count \in 0..MAX_CHANGES
    /\ dec.invoked =>
         /\ dec.n \in 2..MAX_CHANGES
         /\ dec.rd \subseteq 0..MAX_CHANGES
         /\ \A i \in PairStarts : i >= 1 /\ i + 1 <= MAX_CHANGES

\* The overflow guard has just fired on a data interval that arrived with
\* MAX_CHANGES intervals buffered, and the interval went to slot 0.
C10_Witness ==
    /\ op = "rx_callback" /\ ev.cls = "data" /\ ev.overflow
    /\ ev.wr = {0} /\ _rx_change_count = 1
    /\ _rx_timings[MAX_CHANGES - 1] # 0

\* C11: a poll returns the code that was pending and empties the mailbox's
\* code, so that a poll directly after it returns nothing; a poll that finds
\* no code returns nothing and leaves code and timestamp as they were.
C11_PollReturnsAndClears ==
    [][ op' = "received_rx"
        => /\ polled' = rx_code
           /\ rx_code' = None
           /\ (rx_code = None => (polled' = None /\ UNCHANGED mailbox))
           /\ (op = "received_rx" => polled' = None) ]_vars

\* A poll has just returned a code and the mailbox is empty.
C11_Witness ==
    /\ op = "received_rx"
    /\ polled # None
    /\ rx_code = None

\* C12: when two or more codes were published since the last poll, the next
\* poll returns the one published last; and every poll returns nothing or
\* the code published last since the mailbox was emptied, after which the
\* codes published before it are in no mailbox and no later poll has them.
C12_LatestOnly ==
    [][ op' = "received_rx"
        => /\ (Len(hist) >= 2 => polled' = hist[Len(hist)])
           /\ (polled' # None => (hist # <<>> /\ polled' = hist[Len(hist)]))
           /\ rx_code' = None
           /\ hist' = <<>> ]_vars

\* A poll after two different codes were published returned the second and
\* dropped the first.
C12_Witness ==
    /\ op = "received_rx"
    /\ Len(missed) = 1
    /\ polled # None
    /\ polled # missed[1]

\* The pairs of the decoder's last run that are within tolerance of neither
\* the zero nor the one template.
BadPairs ==
    {i \in PairStarts :
        /\ ~ (/\ Dev100(i, PROTOCOLS[rx_proto].zero_high) < Tol100
              /\ Dev100(i + 1, PROTOCOLS[rx_proto].zero_low) < Tol100)
        /\ ~ (/\ Dev100(i, PROTOCOLS[rx_proto].one_high) < Tol100
              /\ Dev100(i + 1, PROTOCOLS[rx_proto].one_low) < Tol100)}

\* C13: when some pair of the buffered frame matches neither template, the
\* edge that ran the decoder leaves the mailbox's code and timestamp exactly
\* as they were before it, whatever bits the earlier pairs had given.
C13_AllOrNothing ==
    [][ (op' = "rx_callback" /\ dec'.invoked /\ BadPairs' # {})
        => UNCHANGED mailbox ]_vars

\* The decoder has aborted on the last pair of a frame of more than six
\* intervals after shifting in a one bit, and the mailbox still holds the
\* code and the time of the frame before.
C13_Witness ==
    /\ op = "rx_callback" /\ dec.invoked
    /\ BadPairs # {} /\ 1 \notin BadPairs
    /\ dec.n > 6 /\ dec.code # 0
    /\ rx_code # None /\ rx_code_timestamp < now

\* The waveforms of one repetition: the leading sync of protocol 6, the
\* tx_length bits, the closing sync.
FrameWaves == tx_length + (IF tx_proto = 6 THEN 2 ELSE 1)
LeadWaves == IF tx_proto = 6 THEN 1 ELSE 0

PulseUnit ==
    IF arg_pulselength # 0 THEN arg_pulselength
    ELSE PROTOCOLS[tx_proto].pulselength

HighUnits(kind) ==
    IF kind = "sync" THEN PROTOCOLS[tx_proto].sync_high
    ELSE IF kind = "0" THEN PROTOCOLS[tx_proto].zero_high
    ELSE PROTOCOLS[tx_proto].one_high

LowUnits(kind) ==
    IF kind = "sync" THEN PROTOCOLS[tx_proto].sync_low
    ELSE IF kind = "0" THEN PROTOCOLS[tx_proto].zero_low
    ELSE PROTOCOLS[tx_proto].one_low

\* C15: every waveform driven on the pin is high for
\* high_units * pulse unit * 3 microseconds and then low for
\* low_units * pulse unit * 3 microseconds, with the multipliers of the
\* protocol for the waveform's kind and the pulse unit the configured
\* override or, without one, the protocol's.
C15_WaveTiming ==
    \A i \in 1..Len(wave) :
        /\ wave[i].high = HighUnits(wave[i].kind) * PulseUnit * 3
        /\ wave[i].low = LowUnits(wave[i].kind) * PulseUnit * 3

\* Protocol 1 without an override has driven a sync: 1050 us high, 32550 us
\* low.
C15_Witness ==
    /\ tx_proto = 1 /\ arg_pulselength = 0
    /\ \E i \in 1..Len(wave) :
         wave[i] = [kind |-> "sync", high |-> 1050, low |-> 32550]

\* The step is the edge handler's, on an interval longer than
\* THRESHOLD_SYNC.
SyncEdge == op' = "rx_callback" /\ now' - _rx_last_timestamp > THRESHOLD_SYNC

\* C16 as stated: a sync edge adds exactly one to _rx_repeat_count, runs the
\* decoder only if _rx_change_count - 1 > 1, and leaves _rx_change_count at
\* 0 whether or not the decoder ran or accepted.
C16_SyncResetsToZero ==
    [][ SyncEdge
        => /\ _rx_repeat_count' = _rx_repeat_count + 1
           /\ (dec'.invoked => _rx_change_count - 1 > 1)
           /\ _rx_change_count' = 0 ]_vars

\* C16 (amended): a sync edge adds exactly one to _rx_repeat_count, runs the
\* decoder only if _rx_change_count - 1 > 1, and, whether or not the decoder
\* ran or accepted, restarts the buffer with the sync interval itself in
\* slot 0, so that _rx_change_count is 1 when the handler returns.
C16_SyncRestartsAtOne ==
    [][ SyncEdge
        => /\ _rx_repeat_count' = _rx_repeat_count + 1
           /\ (dec'.invoked => _rx_change_count - 1 > 1)
           /\ _rx_timings'[0] = now' - _rx_last_timestamp
           /\ _rx_change_count' = 1 ]_vars

\* A second sync edge has run the decoder on a buffer it rejected, and the
\* buffer restarts with that edge's interval.
C16_Witness ==
    /\ op = "rx_callback" /\ ev.cls = "sync"
    /\ dec.invoked /\ ~dec.accepted
    /\ _rx_repeat_count = 2
    /\ _rx_change_count = 1 /\ _rx_timings[0] = ev.duration

\* C17: the mailbox changes only when a poll empties the code, or when a
\* sync edge arrives with _rx_change_count - 1 > 6 and the decoder's value
\* is not 0, and then the code is that value and the timestamp that edge's;
\* so the code is always None or a positive integer.
C17_MailboxWrites ==
    [][ /\ mailbox' # mailbox
           => \/ /\ op' = "received_rx"
                 /\ rx_code' = None
                 /\ rx_code_timestamp' = rx_code_timestamp
              \/ /\ SyncEdge
                 /\ _rx_change_count - 1 > 6
                 /\ dec'.invoked /\ dec'.matched /\ dec'.code # 0
                 /\ rx_code' = dec'.code
                 /\ rx_code_timestamp' = now'
        /\ rx_code' = None \/ rx_code' > 0 ]_vars

\* A sync edge has just replaced a pending code and its time by another
\* code and its own time.
C17_Witness ==
    /\ op = "rx_callback" /\ ev.cls = "sync" /\ dec.invoked /\ dec.accepted
    /\ dec.n > 6 /\ rx_code = dec.code /\ rx_code > 0
    /\ rx_code_timestamp = now
    /\ Len(hist) = 2 /\ hist[1] # hist[2]

\* C18: whenever the decoder runs, slot 0 of the buffer it reads holds an
\* interval longer than THRESHOLD_SYNC.
C18_SlotZeroIsSync ==
    dec.invoked => dec.buf[0] > THRESHOLD_SYNC

\* The step is the edge handler's, on a data interval (longer than
\* THRESHOLD_TICK, not longer than THRESHOLD_SYNC) that arrives with
\* MAX_CHANGES or more intervals buffered.
OverflowEdge ==
    /\ op' = "rx_callback"
    /\ now' - _rx_last_timestamp > THRESHOLD_TICK
    /\ now' - _rx_last_timestamp <= THRESHOLD_SYNC
    /\ _rx_change_count >= MAX_CHANGES

\* C19 as stated: the data interval that arrives with MAX_CHANGES intervals
\* buffered leaves _rx_change_count and _rx_repeat_count at 0, and
\* _rx_change_count never exceeds MAX_CHANGES.
C19_OverflowResetsToZero ==
    [][ /\ OverflowEdge => (_rx_change_count' = 0 /\ _rx_repeat_count' = 0)
        /\ _rx_change_count' <= MAX_CHANGES ]_vars

\* C19 (amended): the data interval that arrives with MAX_CHANGES intervals
\* buffered resets _rx_repeat_count to 0 and restarts the buffer with itself
\* in slot 0, so that _rx_change_count is 1 when the handler returns; every
\* other data interval adds one to _rx_change_count, which never exceeds
\* MAX_CHANGES.
C19_OverflowRestartsAtOne ==
    [][ /\ OverflowEdge
           => /\ _rx_repeat_count' = 0
              /\ _rx_timings'[0] = now' - _rx_last_timestamp
              /\ _rx_change_count' = 1
        /\ _rx_change_count' <= MAX_CHANGES ]_vars

\* The guard has fired on a full buffer: the counters restart and slot 0
\* holds the interval that set it off.
C19_Witness ==
    /\ op = "rx_callback" /\ ev.cls = "data" /\ ev.overflow
    /\ _rx_repeat_count = 0 /\ _rx_change_count = 1
    /\ _rx_timings[0] = ev.duration
    /\ \A i \in 1..(MAX_CHANGES - 1) : _rx_timings[i] # 0

\* C20: whatever the interleaving of the lines of received_rx with the edge
\* handler, a code leaves the mailbox only when a successful decode writes
\* over it or when received_rx clears it while holding that same code as the
\* value it will return.
C20_PollClearsOnlyReturned ==
    [][ (rx_code # None /\ rx_code' # rx_code)
        => \/ /\ op' = "rx_callback"
              /\ dec'.invoked /\ dec'.accepted /\ rx_code' = dec'.code
           \/ /\ op' = "received_rx:clear"
              /\ poll_code = rx_code ]_vars

====
